---- MODULE Spec2Model ----
(***************************************************************************)
(* A model of static/app.js, the browser-side controller of the NMR        *)
(* scraper: two JSON POST requests (condense, parse tables), the rendering *)
(* of the returned tables, and the copy-to-clipboard buttons.              *)
(*                                                                         *)
(* The page is single threaded.  An async handler runs from the event that *)
(* starts it to its first await, and from the settling of the awaited      *)
(* promise to the next await or to its end, without interleaving: each of  *)
(* these runs is one action.  The environment (network, clipboard, clock)  *)
(* chooses how and when each awaited promise settles.                      *)
(*                                                                         *)
(* A text is a sequence of fragments, the parts of a template literal;     *)
(* concatenation of texts is \o.  A text "contains" a value when one of    *)
(* its fragments is that value.                                            *)
(***************************************************************************)
EXTENDS Integers, Sequences, FiniteSets, TLC

VARIABLES
    processBtn,     \* process-article-btn: [disabled, label]
    articleOutput,  \* article-output.value, a text
    condenseReq,    \* the runs of the condense handler in progress, each at an await
    parseBtn,       \* parse-tables-btn: [disabled, label]
    tablesOutput,   \* the children of tables-output, in document order
    parseReq,       \* the runs of the parse handler in progress, each at an await
    copyBtn,        \* copy-article-btn.textContent
    writes,         \* navigator.clipboard.writeText calls not yet settled
    timers,         \* setTimeout callbacks not yet run, in creation order
    clipboard,      \* the system clipboard: [set, text]
    lastAnswer,     \* how the network answered the last request of each operation
    unhandled       \* the handlers whose promise was rejected (nothing catches it)

vars == <<processBtn, articleOutput, condenseReq, parseBtn, tablesOutput,
          parseReq, copyBtn, writes, timers, clipboard, lastAnswer, unhandled>>

condenseVars == <<processBtn, articleOutput, condenseReq>>
parseVars == <<parseBtn, tablesOutput, parseReq>>
copyVars == <<copyBtn, writes, timers, clipboard>>

(***************************************************************************)
(* Bounds and input domains.                                               *)
(***************************************************************************)
MaxTables == 2      \* tables in one parse response
MaxRequests == 2    \* runs of one request handler that may be in progress
MaxPending == 2     \* copy operations (clipboard writes and timers) pending

Inputs == {"", "text"}                       \* what the user typed
TransportMessages == {"Failed to fetch", "Load failed"}
BodyMessages == {"Unexpected end of JSON input"}
Statuses == {200, 404, 500}
FailBodies == {"err", "Not Found"}
Condensed == {"X", "Y"}

\* Messages of the TypeErrors the engine raises; their wording is the engine's.
DestructureMessage == "Cannot destructure property of null"
NullTableMessage == "Cannot read properties of null (reading 'title')"

(***************************************************************************)
(* JSON values.  An object is a record holding the fields that are         *)
(* present; null is the record holding only the marker field isNull.       *)
(***************************************************************************)
JsonNull == [isNull |-> TRUE]
IsNull(v) == "isNull" \in DOMAIN v
Has(v, key) == key \in DOMAIN v

Prop(v, key) == IF Has(v, key) THEN [def |-> TRUE, val |-> v[key]] ELSE [def |-> FALSE]

\* The conversion of a property's value to the DOMString a text field stores.
ValueText(p) == IF p.def THEN <<p.val>> ELSE <<"undefined">>

Titles == {"T", " T ", "", "  "}
HeaderLists == {<<>>, <<"a">>, <<"a", "b">>}
RowLists == {<<>>, << <<"1", "2">> >>, << <<"1">>, <<>> >>, << <<"2">>, <<"1", "2", "1">> >>}

\* The table of the specification's example, and a table holding a title only.
TableT == [title |-> "T", headers |-> <<"a", "b">>, rows |-> << <<"1", "2">> >>]
TableBare == [title |-> ""]

\* Every table over the domains above, each field present or missing.
AllTables ==
    LET WithTitle == {[title |-> t] : t \in Titles}
        WithHeaders == {[headers |-> h] : h \in HeaderLists}
        WithRows == {[rows |-> r] : r \in RowLists}
        Join(a, b) == [k \in DOMAIN a \cup DOMAIN b |-> IF k \in DOMAIN a THEN a[k] ELSE b[k]]
        TH == WithTitle \cup WithHeaders \cup {Join(a, b) : a \in WithTitle, b \in WithHeaders}
    IN  TH \cup WithRows \cup {Join(a, b) : a \in TH, b \in WithRows} \cup {[note |-> "n"]}

RECURSIVE SeqsUpTo(_, _)
SeqsUpTo(S, n) ==
    IF n = 0 THEN {<<>>}
    ELSE LET shorter == SeqsUpTo(S, n - 1)
         IN  shorter \cup {Append(q, x) : q \in {r \in shorter : Len(r) = n - 1}, x \in S}

(***************************************************************************)
(* postJSON (lines 2-13).  fetch settles first: rejected with a message,   *)
(* or resolved with a response of some status.  The body is read next:     *)
(* res.text() of a response that is not ok, res.json() of one that is.     *)
(***************************************************************************)
Throw(message) == [thrown |-> TRUE, message |-> message]
Return(value) == [thrown |-> FALSE, value |-> value]

ResOk(status) == status \in 200..299

\* A slip: the message names the status and not the body.
RequestFailed_NoBody(status, text) == <<"Request failed: ", ToString(status)>>

RequestFailed(status, text) == <<"Request failed: ", ToString(status), " ", text>>

\* The network's answer to one request: fetch rejected, or a response and the
\* settling of the read of its body, [rejected |-> TRUE, message] or
\* [rejected |-> FALSE, content].
NoAnswer == [kind |-> "none"]
Transport(message) == [kind |-> "transport", message |-> message]
Response(status, body) == [kind |-> "response", status |-> status, body |-> body]

\* What postJSON throws or returns when the network answers with `answer`.
PostJSON(answer) ==
    IF answer.kind = "transport" THEN Throw(<<answer.message>>)
    ELSE IF answer.body.rejected THEN Throw(<<answer.body.message>>)
    ELSE IF ~ResOk(answer.status) THEN Throw(RequestFailed(answer.status, answer.body.content))
    ELSE Return(answer.body.content)

(***************************************************************************)
(* JSON.stringify(table, null, gap): the lines of the serialization.  The  *)
(* keys are written in the order title, headers, rows.                     *)
(***************************************************************************)
JsonIndent == 2

RECURSIVE Spaces(_)
Spaces(n) == IF n = 0 THEN "" ELSE " " \o Spaces(n - 1)

Pad(level, gap) == Spaces(level * gap)
Quote(s) == "\"" \o s \o "\""
Comma(i, n) == IF i < n THEN "," ELSE ""

RECURSIVE Flatten(_)
Flatten(ss) == IF ss = <<>> THEN <<>> ELSE Head(ss) \o Flatten(Tail(ss))

\* The lines of one member or element: `pre` before its first line, `suf` after its last.
Item(ls, pre, suf) ==
    [i \in 1..Len(ls) |->
        (IF i = 1 THEN pre ELSE "") \o ls[i] \o (IF i = Len(ls) THEN suf ELSE "")]

StringArrayLines(arr, level, gap) ==
    IF Len(arr) = 0 THEN <<"[]">>
    ELSE <<"[">>
         \o [i \in 1..Len(arr) |-> Pad(level + 1, gap) \o Quote(arr[i]) \o Comma(i, Len(arr))]
         \o <<Pad(level, gap) \o "]">>

RowsLines(rows, level, gap) ==
    IF Len(rows) = 0 THEN <<"[]">>
    ELSE <<"[">>
         \o Flatten([i \in 1..Len(rows) |->
                Item(StringArrayLines(rows[i], level + 1, gap),
                     Pad(level + 1, gap), Comma(i, Len(rows)))])
         \o <<Pad(level, gap) \o "]">>

JsonStringify(table, gap) ==
    LET keys == SelectSeq(<<"title", "headers", "rows", "note">>, LAMBDA k : Has(table, k))
        value(k) == IF k \in {"title", "note"} THEN <<Quote(table[k])>>
                    ELSE IF k = "headers" THEN StringArrayLines(table[k], 1, gap)
                    ELSE RowsLines(table[k], 1, gap)
    IN  IF Len(keys) = 0 THEN <<"{}">>
        ELSE <<"{">>
             \o Flatten([i \in 1..Len(keys) |->
                    Item(value(keys[i]), Pad(1, gap) \o Quote(keys[i]) \o ": ",
                         Comma(i, Len(keys)))])
             \o <<"}">>

(***************************************************************************)
(* Rendering (lines 20-113).                                               *)
(***************************************************************************)
\* String.prototype.trim on the titles of the model.
Trim(s) == CASE s = " T " -> "T"
             [] s = "  " -> ""
             [] OTHER -> s

\* (x || d): the value of a property, d when it is missing or falsy ("").
OrElse(p, d) == IF p.def /\ p.val # "" THEN p.val ELSE d

\* (x || []) for a property holding a sequence: a sequence is never falsy.
OrEmpty(p) == IF p.def THEN p.val ELSE <<>>

\* The table element: a thead of one row of th, a tbody of one row of td per row.
RenderReadonlyTable(table) ==
    [thead |-> <<OrEmpty(Prop(table, "headers"))>>,
     tbody |-> OrEmpty(Prop(table, "rows"))]

BlockTitle(table) ==
    LET trimmed == Trim(OrElse(Prop(table, "title"), ""))
    IN  IF trimmed # "" THEN trimmed ELSE "(untitled)"

\* A slip: the JSON shown is that of the table with its missing fields filled in.
RenderTableBlock_Normalized(table) ==
    [kind |-> "block",
     title |-> BlockTitle(table),
     table |-> RenderReadonlyTable(table),
     json |-> JsonStringify([title |-> OrElse(Prop(table, "title"), ""),
                             headers |-> OrEmpty(Prop(table, "headers")),
                             rows |-> OrEmpty(Prop(table, "rows"))], JsonIndent),
     copyLabel |-> "Copy JSON"]

\* The block renderTableBlock appends to the container.
RenderTableBlock(table) ==
    [kind |-> "block",
     title |-> BlockTitle(table),
     table |-> RenderReadonlyTable(table),
     json |-> JsonStringify(table, JsonIndent),
     copyLabel |-> "Copy JSON"]

Paragraph(class, text) == [kind |-> "p", class |-> class, text |-> text]

NoTablesFound == Paragraph("hint", <<"No tables found.">>)

\* The index of the first null entry of tables, Len(tables) + 1 when there is none:
\* renderTableBlock throws there (table.title of null), leaving the blocks before it.
FirstNull(tables) ==
    LET nulls == {i \in 1..Len(tables) : IsNull(tables[i])}
    IN  IF nulls = {} THEN Len(tables) + 1
        ELSE CHOOSE i \in nulls : \A j \in nulls : i <= j

\* A slip: the mount is not cleared.
Cleared_Keep(mount) == mount

\* mount.innerHTML = "": the mount without its children.
Cleared(mount) == <<>>

NoError == [thrown |-> FALSE]

\* renderTables: the mount's new children, and the exception it raised if any.
\* tables is the destructured property: [def |-> FALSE] when the field is missing.
RenderTables(mount, tables) ==
    IF ~tables.def \/ Len(tables.val) = 0
    THEN [mount |-> Cleared(mount) \o <<NoTablesFound>>, error |-> NoError]
    ELSE LET n == FirstNull(tables.val)
         IN  [mount |-> Cleared(mount) \o [i \in 1..(n - 1) |-> RenderTableBlock(tables.val[i])],
              error |-> IF n <= Len(tables.val) THEN Throw(<<NullTableMessage>>)
                        ELSE NoError]

(***************************************************************************)
(* The request handlers after postJSON has settled with result r           *)
(* (Throw(message) or Return(json)): the rest of try, catch and finally.   *)
(***************************************************************************)
\* const { key } = <value>: destructuring null throws a TypeError.
Destructure(r) ==
    IF ~r.thrown /\ IsNull(r.value) THEN Throw(<<DestructureMessage>>) ELSE r

\* A slip: the button is enabled again after the try block, not in a finally.
CondenseFinish_NoFinally(r) ==
    LET t == Destructure(r)
    IN  [out |-> IF t.thrown THEN <<"Error: ">> \o t.message
                 ELSE ValueText(Prop(t.value, "condensed")),
         btn |-> IF t.thrown THEN [disabled |-> TRUE, label |-> "Processing..."]
                 ELSE [disabled |-> FALSE, label |-> "Process"],
         rejected |-> FALSE]

\* A slip: the handler reads a property the response does not have.
CondenseFinish_WrongKey(r) ==
    LET t == Destructure(r)
    IN  [out |-> IF t.thrown THEN <<"Error: ">> \o t.message
                 ELSE ValueText(Prop(t.value, "condense")),
         btn |-> [disabled |-> FALSE, label |-> "Process"],
         rejected |-> FALSE]

\* Lines 123-130: the new value of article-output, the button, and whether the
\* handler's promise is rejected.
CondenseFinish(r) ==
    LET t == Destructure(r)
    IN  [out |-> IF t.thrown THEN <<"Error: ">> \o t.message
                 ELSE ValueText(Prop(t.value, "condensed")),
         btn |-> [disabled |-> FALSE, label |-> "Process"],
         rejected |-> FALSE]

\* A slip: the error paragraph is appended to what renderTables left in the mount.
ParseFinish_AppendError(r, mount) ==
    LET t == Destructure(r)
        rendered == RenderTables(mount, Prop(t.value, "tables"))
        e == IF t.thrown THEN t ELSE rendered.error
        left == IF t.thrown THEN mount ELSE rendered.mount
    IN  [mount |-> IF e.thrown THEN left \o <<Paragraph("error", <<"Error: ">> \o e.message)>>
                   ELSE rendered.mount,
         btn |-> [disabled |-> FALSE, label |-> "Parse tables"],
         rejected |-> FALSE]

\* Lines 148-156: the new children of tables-output, the button, and whether the
\* handler's promise is rejected.
ParseFinish(r, mount) ==
    LET t == Destructure(r)
        rendered == RenderTables(mount, Prop(t.value, "tables"))
        e == IF t.thrown THEN t ELSE rendered.error
    IN  [mount |-> IF e.thrown THEN <<Paragraph("error", <<"Error: ">> \o e.message)>>
                   ELSE rendered.mount,
         btn |-> [disabled |-> FALSE, label |-> "Parse tables"],
         rejected |-> FALSE]

\* A slip: the label changes and the button stays enabled.
ProcessStarted_NotDisabled == [disabled |-> FALSE, label |-> "Processing..."]

\* Lines 117-121 and 143-146: the button once the handler has started.
ProcessStarted == [disabled |-> TRUE, label |-> "Processing..."]
ParseStarted == [disabled |-> TRUE, label |-> "Parsing..."]

Remove(q, i) == [j \in 1..(Len(q) - 1) |-> IF j < i THEN q[j] ELSE q[j + 1]]

(***************************************************************************)
(* The copy buttons.  A button is copy-article-btn, the copy button of the *)
(* i-th child of tables-output, or the button of a block that has been     *)
(* removed from the document: its label is no longer visible, and a timer  *)
(* set for it changes nothing that is.                                     *)
(***************************************************************************)
CopyFeedbackMs == 1200
TickMs == CopyFeedbackMs \div 2

ArticleBtn == [el |-> "copy-article-btn"]
JsonBtn(i) == [el |-> "copy-json-btn", index |-> i]
DetachedBtn == [el |-> "detached"]
IsJsonBtn(b) == b.el = "copy-json-btn"

\* A slip: every block's button reads the first block's text area.
CopyJsonText_First(mount, i) == mount[1].json

\* Line 134 and line 83: the text the handler hands to copyToClipboard.
CopyArticleText(out) == out
CopyJsonText(mount, i) == mount[i].json

\* The buttons of the blocks leave the document with them.
Detach(b) == IF IsJsonBtn(b) THEN DetachedBtn ELSE b
DetachWrites(ws) == [k \in 1..Len(ws) |-> [ws[k] EXCEPT !.btn = Detach(@)]]
DetachTimers(ts) == SelectSeq(ts, LAMBDA t : ~IsJsonBtn(t.btn))

\* Lines 84-85 and 137-138: the label and the timer once the write has resolved.
Feedback(b) == [label |-> "Copied!", timer |-> [btn |-> b, remaining |-> CopyFeedbackMs]]

\* The label a timer's callback writes (lines 85 and 138).
RevertLabel(b) == IF IsJsonBtn(b) THEN "Copy JSON" ELSE "Copy condensed"

SetJsonLabel(mount, b, label) ==
    IF IsJsonBtn(b) THEN [mount EXCEPT ![b.index].copyLabel = label] ELSE mount
SetArticleLabel(old, b, label) == IF b = ArticleBtn THEN label ELSE old

(***************************************************************************)
(* The page once the script has run: nothing requested, nothing rendered.  *)
(* The page's markup is not part of the script: the buttons are taken to   *)
(* start enabled, with the labels the handlers restore.  lastAnswer is a   *)
(* history variable: no code reads it.                                     *)
(***************************************************************************)
Init ==
    /\ processBtn = [disabled |-> FALSE, label |-> "Process"]
    /\ articleOutput = <<>>
    /\ condenseReq = <<>>
    /\ parseBtn = [disabled |-> FALSE, label |-> "Parse tables"]
    /\ tablesOutput = <<>>
    /\ parseReq = <<>>
    /\ copyBtn = "Copy condensed"
    /\ writes = <<>>
    /\ timers = <<>>
    /\ clipboard = [set |-> FALSE]
    /\ lastAnswer = [condense |-> NoAnswer, parse |-> NoAnswer]
    /\ unhandled = {}

(***************************************************************************)
(* What the user and the network may do: an environment is a record of     *)
(*   inputs    the texts the user may have typed,                          *)
(*   transport the messages fetch may be rejected with,                    *)
(*   statuses  the statuses a response may have,                           *)
(*   bodies    the texts a response that is not ok may hold,               *)
(*   broken    the messages reading a body may be rejected with,           *)
(*   condense  the JSON values a condense response may hold,               *)
(*   parse     the JSON values a parse response may hold.                  *)
(***************************************************************************)
NoSuchField == [detail |-> "none"]
TablesJsons(tables, n) == {[tables |-> ts] : ts \in SeqsUpTo(tables, n)}

Env ==
    [inputs |-> Inputs,
     transport |-> TransportMessages,
     statuses |-> Statuses,
     bodies |-> FailBodies,
     broken |-> BodyMessages,
     condense |-> {[condensed |-> c] : c \in Condensed} \cup {JsonNull, NoSuchField},
     parse |-> TablesJsons({TableT, TableBare, JsonNull}, MaxTables)
                   \cup {JsonNull, NoSuchField}]

\* How reading the body of a response of this status may settle.
BodyOutcomes(env, status, jsons) ==
    {[rejected |-> TRUE, message |-> m] : m \in env.broken}
        \cup {[rejected |-> FALSE, content |-> c] :
                 c \in IF ResOk(status) THEN jsons ELSE env.bodies}

Awaiting(reqs, pc) == {i \in 1..Len(reqs) : reqs[i].pc = pc}

(***************************************************************************)
(* Condense (lines 116-131).                                               *)
(***************************************************************************)
\* A click reaches the handler only while the button is enabled.
ProcessClick(env) ==
    /\ ~processBtn.disabled
    /\ Len(condenseReq) < MaxRequests
    /\ \E input \in env.inputs :
          condenseReq' = Append(condenseReq, [pc |-> "fetch", payload |-> [text |-> input]])
    /\ processBtn' = ProcessStarted
    /\ UNCHANGED <<articleOutput, parseVars, copyVars, lastAnswer, unhandled>>

\* The network answers run i's request, and the handler runs to its end.
CondenseEnd(i, answer) ==
    LET fin == CondenseFinish(PostJSON(answer))
    IN  /\ lastAnswer' = [lastAnswer EXCEPT !.condense = answer]
        /\ articleOutput' = fin.out
        /\ processBtn' = fin.btn
        /\ condenseReq' = Remove(condenseReq, i)
        /\ unhandled' = IF fin.rejected THEN unhandled \cup {"process-article-btn"}
                        ELSE unhandled
        /\ UNCHANGED <<parseVars, copyVars>>

CondenseFetchReject(env) ==
    \E i \in Awaiting(condenseReq, "fetch") :
        \E m \in env.transport : CondenseEnd(i, Transport(m))

\* fetch resolves: postJSON goes on to read the body.
CondenseFetchResolve(env) ==
    \E i \in Awaiting(condenseReq, "fetch") :
        \E s \in env.statuses :
            /\ condenseReq' = [condenseReq EXCEPT ![i] = [pc |-> "body", status |-> s]]
            /\ UNCHANGED <<processBtn, articleOutput, parseVars, copyVars, lastAnswer, unhandled>>

CondenseBodySettle(env) ==
    \E i \in Awaiting(condenseReq, "body") :
        \E body \in BodyOutcomes(env, condenseReq[i].status, env.condense) :
            CondenseEnd(i, Response(condenseReq[i].status, body))

(***************************************************************************)
(* Parse tables (lines 142-157).                                           *)
(***************************************************************************)
\* A slip: the handler looks up process-article-btn.
ParseClick_WrongButton(env) ==
    /\ ~parseBtn.disabled
    /\ Len(parseReq) < MaxRequests
    /\ \E input \in env.inputs :
          parseReq' = Append(parseReq, [pc |-> "fetch", payload |-> [markdown |-> input]])
    /\ processBtn' = ParseStarted
    /\ UNCHANGED <<parseBtn, tablesOutput, articleOutput, condenseReq, copyVars,
                   lastAnswer, unhandled>>

ParseClick(env) ==
    /\ ~parseBtn.disabled
    /\ Len(parseReq) < MaxRequests
    /\ \E input \in env.inputs :
          parseReq' = Append(parseReq, [pc |-> "fetch", payload |-> [markdown |-> input]])
    /\ parseBtn' = ParseStarted
    /\ UNCHANGED <<tablesOutput, condenseVars, copyVars, lastAnswer, unhandled>>

\* The network answers run i's request, and the handler runs to its end.  The
\* blocks it replaces leave the document with their buttons.
ParseEnd(i, answer) ==
    LET fin == ParseFinish(PostJSON(answer), tablesOutput)
    IN  /\ lastAnswer' = [lastAnswer EXCEPT !.parse = answer]
        /\ tablesOutput' = fin.mount
        /\ parseBtn' = fin.btn
        /\ parseReq' = Remove(parseReq, i)
        /\ unhandled' = IF fin.rejected THEN unhandled \cup {"parse-tables-btn"}
                        ELSE unhandled
        /\ writes' = DetachWrites(writes)
        /\ timers' = DetachTimers(timers)
        /\ UNCHANGED <<condenseVars, copyBtn, clipboard>>

ParseFetchReject(env) ==
    \E i \in Awaiting(parseReq, "fetch") :
        \E m \in env.transport : ParseEnd(i, Transport(m))

ParseFetchResolve(env) ==
    \E i \in Awaiting(parseReq, "fetch") :
        \E s \in env.statuses :
            /\ parseReq' = [parseReq EXCEPT ![i] = [pc |-> "body", status |-> s]]
            /\ UNCHANGED <<parseBtn, tablesOutput, condenseVars, copyVars, lastAnswer, unhandled>>

ParseBodySettle(env) ==
    \E i \in Awaiting(parseReq, "body") :
        \E body \in BodyOutcomes(env, parseReq[i].status, env.parse) :
            ParseEnd(i, Response(parseReq[i].status, body))

(***************************************************************************)
(* Copy condensed (lines 133-139) and Copy JSON (lines 82-86).             *)
(***************************************************************************)
CopyStart(b, text) ==
    /\ Len(writes) + Len(timers) < MaxPending
    /\ writes' = Append(writes, [btn |-> b, text |-> text])
    /\ UNCHANGED <<condenseVars, parseVars, copyBtn, timers, clipboard, lastAnswer, unhandled>>

CopyArticleClick == CopyStart(ArticleBtn, CopyArticleText(articleOutput))

CopyJsonClick ==
    \E i \in 1..Len(tablesOutput) :
        /\ tablesOutput[i].kind = "block"
        /\ CopyStart(JsonBtn(i), CopyJsonText(tablesOutput, i))

\* writeText resolves: the clipboard holds the text, and the handler goes on.
WriteResolve ==
    \E k \in 1..Len(writes) :
        LET w == writes[k]
            f == Feedback(w.btn)
        IN  /\ clipboard' = [set |-> TRUE, text |-> w.text]
            /\ writes' = Remove(writes, k)
            /\ copyBtn' = SetArticleLabel(copyBtn, w.btn, f.label)
            /\ tablesOutput' = SetJsonLabel(tablesOutput, w.btn, f.label)
            /\ timers' = IF w.btn = DetachedBtn THEN timers ELSE Append(timers, f.timer)
            /\ UNCHANGED <<condenseVars, parseBtn, parseReq, lastAnswer, unhandled>>

\* writeText rejects: the await throws and nothing catches it.
WriteReject ==
    \E k \in 1..Len(writes) :
        /\ writes' = Remove(writes, k)
        /\ unhandled' = unhandled \cup
              {IF writes[k].btn = ArticleBtn THEN "copy-article-btn" ELSE "copy-json-btn"}
        /\ UNCHANGED <<condenseVars, parseVars, copyBtn, timers, clipboard, lastAnswer>>

\* Timers of one delay run in the order they were set.
TimerFire ==
    /\ timers # <<>>
    /\ Head(timers).remaining = 0
    /\ LET b == Head(timers).btn
       IN  /\ copyBtn' = SetArticleLabel(copyBtn, b, RevertLabel(b))
           /\ tablesOutput' = SetJsonLabel(tablesOutput, b, RevertLabel(b))
    /\ timers' = Tail(timers)
    /\ UNCHANGED <<condenseVars, parseBtn, parseReq, writes, clipboard, lastAnswer, unhandled>>

\* TickMs pass.
Tick ==
    /\ \E k \in 1..Len(timers) : timers[k].remaining > 0
    /\ timers' = [k \in 1..Len(timers) |->
                    [timers[k] EXCEPT !.remaining = IF @ > TickMs THEN @ - TickMs ELSE 0]]
    /\ UNCHANGED <<condenseVars, parseVars, copyBtn, writes, clipboard, lastAnswer, unhandled>>

(***************************************************************************)
(* Spec: the two request operations under every answer of the network.     *)
(***************************************************************************)
Condense(env) ==
    \/ ProcessClick(env)
    \/ CondenseFetchReject(env)
    \/ CondenseFetchResolve(env)
    \/ CondenseBodySettle(env)

Parse(env) ==
    \/ ParseClick(env)
    \/ ParseFetchReject(env)
    \/ ParseFetchResolve(env)
    \/ ParseBodySettle(env)

Next == Condense(Env) \/ Parse(Env)

Spec == Init /\ [][Next]_vars

\* FairSpec: every condense request the network holds is answered in the end.
FairSpec ==
    /\ Spec
    /\ WF_vars(CondenseFetchReject(Env) \/ CondenseFetchResolve(Env))
    /\ WF_vars(CondenseBodySettle(Env))

(***************************************************************************)
(* SpecRender: the rendering of one table, any table of AllTables.         *)
(***************************************************************************)
RenderEnv ==
    [inputs |-> {"text"},
     transport |-> {},
     statuses |-> {200},
     bodies |-> {},
     broken |-> {},
     condense |-> {},
     parse |-> TablesJsons(AllTables, 1)]

NextRender ==
    \/ ParseClick(RenderEnv)
    \/ ParseFetchResolve(RenderEnv)
    \/ ParseBodySettle(RenderEnv)

SpecRender == Init /\ [][NextRender]_vars

(***************************************************************************)
(* SpecCopy: the copy buttons, while requests whose answers are few change *)
(* the text areas under them.                                              *)
(***************************************************************************)
CopyEnv ==
    [inputs |-> {"text"},
     transport |-> {},
     statuses |-> {200},
     bodies |-> {},
     broken |-> {},
     condense |-> {[condensed |-> "X"]},
     parse |-> {[tables |-> <<TableT, TableBare>>]}]

Copy ==
    \/ CopyArticleClick
    \/ CopyJsonClick
    \/ WriteResolve
    \/ WriteReject
    \/ TimerFire
    \/ Tick

NextCopy ==
    \/ ProcessClick(CopyEnv)
    \/ CondenseFetchResolve(CopyEnv)
    \/ CondenseBodySettle(CopyEnv)
    \/ ParseClick(CopyEnv)
    \/ ParseFetchResolve(CopyEnv)
    \/ ParseBodySettle(CopyEnv)
    \/ Copy

SpecCopy == Init /\ [][NextCopy]_vars

(***************************************************************************)
(* Properties.                                                             *)
(***************************************************************************)
Contains(text, v) == \E i \in 1..Len(text) : text[i] = v

Enabled(label) == [disabled |-> FALSE, label |-> label]

\* The answer is one postJSON returns a JSON value for.
Returned(a) == a.kind = "response" /\ ~a.body.rejected /\ ResOk(a.status)

\* The parse handler renders the answer without raising an exception.
ParseSucceeded(a) ==
    /\ Returned(a)
    /\ ~IsNull(a.body.content)
    /\ Has(a.body.content, "tables") =>
          \A i \in 1..Len(a.body.content.tables) : ~IsNull(a.body.content.tables[i])

\* C1: every click on process-article-btn disables the button; the step in which
\* the request settles, whatever the outcome, leaves it enabled with the label
\* "Process"; and a disabled button is enabled again once the network has answered.
C1_ReenabledWhenSettled ==
    /\ [][Len(condenseReq') > Len(condenseReq) => processBtn'.disabled]_vars
    /\ [][Len(condenseReq') < Len(condenseReq) => processBtn' = Enabled("Process")]_vars
    /\ (processBtn.disabled ~> (processBtn = Enabled("Process")))

\* A request that failed in transport has settled and the button is enabled again.
C1_Witness ==
    /\ lastAnswer.condense.kind = "transport"
    /\ condenseReq = <<>>
    /\ processBtn = Enabled("Process")
    /\ Head(articleOutput) = "Error: "

\* C2: each request control has at most one request outstanding, and is disabled
\* for as long as its request is.
C2_OneRequestPerControl ==
    /\ Len(condenseReq) <= 1
    /\ Len(parseReq) <= 1
    /\ processBtn.disabled <=> Len(condenseReq) = 1
    /\ parseBtn.disabled <=> Len(parseReq) = 1

\* Both controls have their request outstanding, and both are disabled.
C2_Witness ==
    /\ Len(condenseReq) = 1 /\ processBtn.disabled
    /\ Len(parseReq) = 1 /\ parseBtn.disabled

\* C3: when the condense request fails, article-output holds an error message:
\* with the status and the body text of a response that is not ok, with the
\* failure's message for a transport failure; the handler's promise is never rejected.
C3_CondenseFailureShown ==
    LET a == lastAnswer.condense
    IN  /\ "process-article-btn" \notin unhandled
        /\ a.kind = "transport" =>
              Head(articleOutput) = "Error: " /\ Contains(articleOutput, a.message)
        /\ (a.kind = "response" /\ a.body.rejected) =>
              Head(articleOutput) = "Error: " /\ Contains(articleOutput, a.body.message)
        /\ (a.kind = "response" /\ ~a.body.rejected /\ ~ResOk(a.status)) =>
              /\ Head(articleOutput) = "Error: "
              /\ Contains(articleOutput, ToString(a.status))
              /\ Contains(articleOutput, a.body.content)
        /\ (Returned(a) /\ IsNull(a.body.content)) => Head(articleOutput) = "Error: "

\* The response 500 with the body "err" has been shown.
C3_Witness ==
    /\ lastAnswer.condense.kind = "response"
    /\ lastAnswer.condense.status = 500
    /\ ~lastAnswer.condense.body.rejected
    /\ lastAnswer.condense.body.content = "err"
    /\ articleOutput = <<"Error: ", "Request failed: ", "500", " ", "err">>

C5_CopiesOwnTextArea ==
    [][/\ Len(writes') = Len(writes) + 1 =>
             LET w == writes'[Len(writes')]
             IN  w.text = IF w.btn = ArticleBtn THEN articleOutput
                          ELSE tablesOutput[w.btn.index].json
       /\ clipboard' # clipboard =>
             /\ Len(writes') = Len(writes) - 1
             /\ \E k \in 1..Len(writes) : clipboard' = [set |-> TRUE, text |-> writes[k].text]
      ]_vars

\* The second block's JSON is on the clipboard, and a write started by
\* copy-article-btn still carries the value article-output held at the click.
C5_Witness ==
    /\ Len(tablesOutput) = 2
    /\ tablesOutput[2].kind = "block"
    /\ tablesOutput[1].json # tablesOutput[2].json
    /\ clipboard = [set |-> TRUE, text |-> tablesOutput[2].json]
    /\ \E k \in 1..Len(writes) :
          writes[k].btn = ArticleBtn /\ writes[k].text # articleOutput

\* The time left on the timer set by the last feedback shown on button b.
NewestRemaining(b) ==
    LET mine == {k \in 1..Len(timers) : timers[k].btn = b}
    IN  IF mine = {} THEN 0
        ELSE timers[CHOOSE k \in mine : \A j \in mine : j <= k].remaining

\* C6: whenever a copy button's label stops showing "Copied!", the feedback it
\* was last given has been showing for the full CopyFeedbackMs.
C6_FeedbackLastsFullDelay ==
    [][/\ (copyBtn = "Copied!" /\ copyBtn' # "Copied!") => NewestRemaining(ArticleBtn) = 0
       /\ parseReq' = parseReq =>
             \A i \in 1..Len(tablesOutput) :
                 (/\ tablesOutput[i].copyLabel = "Copied!"
                  /\ tablesOutput'[i].copyLabel # "Copied!") => NewestRemaining(JsonBtn(i)) = 0
      ]_vars

\* C7: after a parse request succeeded, tables-output holds the "No tables
\* found." paragraph alone when the answer has no table, and otherwise one block
\* per table of the answer, in the answer's order, and nothing else.
C7_OutputIsTheAnswer ==
    LET a == lastAnswer.parse
    IN  (a.kind # "none" /\ ParseSucceeded(a)) =>
            LET tables == Prop(a.body.content, "tables")
            IN  IF ~tables.def \/ Len(tables.val) = 0
                THEN tablesOutput = <<NoTablesFound>>
                ELSE /\ Len(tablesOutput) = Len(tables.val)
                     /\ \A i \in 1..Len(tables.val) :
                           tablesOutput[i] = RenderTableBlock(tables.val[i])

\* Two tables have been rendered, in the order of the answer.
C7_Witness ==
    /\ Returned(lastAnswer.parse)
    /\ Has(lastAnswer.parse.body.content, "tables")
    /\ lastAnswer.parse.body.content.tables = <<TableBare, TableT>>
    /\ Len(tablesOutput) = 2
    /\ tablesOutput[1].title = "(untitled)"
    /\ tablesOutput[2].title = "T"

\* C8: after a condense request answered {condensed: X}, article-output is X.
C8_OutputIsCondensed ==
    LET a == lastAnswer.condense
    IN  (/\ Returned(a)
         /\ ~IsNull(a.body.content)
         /\ Has(a.body.content, "condensed")) =>
            articleOutput = <<a.body.content.condensed>>

\* The answer {condensed: "X"} has been written.
C8_Witness ==
    /\ Returned(lastAnswer.condense)
    /\ Has(lastAnswer.condense.body.content, "condensed")
    /\ lastAnswer.condense.body.content.condensed = "X"
    /\ condenseReq = <<>>
    /\ articleOutput = <<"X">>

\* C9: a step of one request operation, its start or its completion, leaves
\* the other operation's button and output area as they were, and neither
\* operation's start waits for the other.
C9_RequestsIndependent ==
    [][/\ condenseReq' # condenseReq => UNCHANGED <<parseBtn, tablesOutput, parseReq>>
       /\ parseReq' # parseReq => UNCHANGED <<processBtn, articleOutput, condenseReq>>
      ]_vars

\* Both requests are outstanding, each started after the other operation had
\* already produced output.
C9_Witness ==
    /\ Len(condenseReq) = 1 /\ condenseReq[1].pc = "body"
    /\ Len(parseReq) = 1 /\ parseReq[1].pc = "body"
    /\ articleOutput # <<>>
    /\ tablesOutput # <<>>

\* The serialization of TableT with an indentation of two spaces.
ExampleJson ==
    <<"{",
      "  \"title\": \"T\",",
      "  \"headers\": [",
      "    \"a\",",
      "    \"b\"",
      "  ],",
      "  \"rows\": [",
      "    [",
      "      \"1\",",
      "      \"2\"",
      "    ]",
      "  ]",
      "}">>

\* C10: the block rendered for one table holds the serialization of that table
\* with an indentation of two spaces, one header row of the table's headers, and
\* one body row per row of the table with that row's cells; a missing headers
\* or rows field is rendered as empty.
C10_RenderOneTable ==
    LET a == lastAnswer.parse
    IN  (a.kind = "response" /\ Len(a.body.content.tables) = 1) =>
            LET t == a.body.content.tables[1]
                b == tablesOutput[1]
            IN  /\ Len(tablesOutput) = 1
                /\ b.kind = "block"
                /\ b.json = JsonStringify(t, 2)
                /\ t = TableT => b.json = ExampleJson
                /\ Len(b.table.thead) = 1
                /\ b.table.thead[1] = (IF Has(t, "headers") THEN t.headers ELSE <<>>)
                /\ b.table.tbody = (IF Has(t, "rows") THEN t.rows ELSE <<>>)

\* A table without headers, whose rows differ in length, has been rendered.
C10_Witness ==
    /\ lastAnswer.parse.kind = "response"
    /\ lastAnswer.parse.body.content.tables = <<[rows |-> << <<"2">>, <<"1", "2", "1">> >>]>>
    /\ Len(tablesOutput) = 1
    /\ tablesOutput[1].table.thead = << <<>> >>
    /\ Len(tablesOutput[1].table.tbody) = 2
    /\ tablesOutput[1].table.tbody[2] = <<"1", "2", "1">>

====
